---- MODULE Spec2Model ----
(***************************************************************************)
(* Clinic voice-agent backend (src/main.py): availability (get_slots) and  *)
(* booking (log_booking) over the schedule store and the appointment       *)
(* store.                                                                  *)
(*                                                                         *)
(* A Python str is a sequence of one-character strings, so that strip,     *)
(* capitalize, strptime, strftime and the lexicographic comparison of      *)
(* get_slots are computed, not assumed.  A time of day is a number of      *)
(* minutes since 00:00, a date is a day number (day 0 is a Monday), and a  *)
(* datetime is date * MinutesPerDay + time of day.                         *)
(*                                                                         *)
(* Spec serves the requests one after another with both files in place,   *)
(* SpecLoop serves booking requests concurrently on the event loop,       *)
(* SpecStore lets the two files be lost and put back between requests,    *)
(* and SpecPure calls the helper functions on their own.                  *)
(***************************************************************************)
EXTENDS Integers, Sequences, FiniteSets, TLC

\* ---------------------------------------------------------------- bounds
\* the appointment store holds at most MaxAppts records
MaxAppts == 2
\* the clock (datetime.now()) runs over the days 0..MaxDay
MaxDay == 1
\* the number of booking requests served concurrently
MaxTasks == 2

\* ------------------------------------------------------------- constants
MinutesPerHour == 60
MinutesPerDay == 1440
DaysPerWeek == 7
\* timedelta(minutes=30), the fixed duration of a slot
SlotMinutes == 30

\* ------------------------------------------------------------ variables
VARIABLES
    appointments,   \* appointments.json: the list of appointment records
    schedules,      \* schedules.json: day name -> DaySchedule
    now,            \* the day of datetime.now()
    op,             \* the handler that served the last request
    req,            \* the last request
    resp,           \* the response to it
    tasks,          \* the log_booking coroutines on the event loop
    running,        \* the coroutine the event loop is running, or 0
    unreadable      \* the files that are missing or do not hold valid JSON

\* ----------------------------------------------------------- Python str
Digits == <<"0", "1", "2", "3", "4", "5", "6", "7", "8", "9">>
Lowers == <<"a", "b", "c", "d", "e", "f", "g", "h", "i", "j", "k", "l", "m",
            "n", "o", "p", "q", "r", "s", "t", "u", "v", "w", "x", "y", "z">>
Uppers == <<"A", "B", "C", "D", "E", "F", "G", "H", "I", "J", "K", "L", "M",
            "N", "O", "P", "Q", "R", "S", "T", "U", "V", "W", "X", "Y", "Z">>

Range(s) == {s[i] : i \in 1..Len(s)}
InSeq(c, s) == \E i \in 1..Len(s) : s[i] = c
IndexOf(c, s) == CHOOSE i \in 1..Len(s) : s[i] = c

DigitSet == Range(Digits)
DigitValue == [c \in DigitSet |-> IndexOf(c, Digits) - 1]
UpperOf == [c \in Range(Lowers) |-> Uppers[IndexOf(c, Lowers)]]
LowerOf == [c \in Range(Uppers) |-> Lowers[IndexOf(c, Uppers)]]

IsDigit(c) == c \in DigitSet
DigitVal(c) == DigitValue[c]

\* code point order of the characters that strftime("%H:%M") produces
Ord(c) == IF IsDigit(c) THEN 48 + DigitVal(c) ELSE IF c = ":" THEN 58 ELSE 0

\* a < b on Python str (lexicographic by code point, a proper prefix is less)
RECURSIVE StrLess(_, _)
StrLess(a, b) ==
    IF b = <<>> THEN FALSE
    ELSE IF a = <<>> THEN TRUE
    ELSE IF Ord(Head(a)) # Ord(Head(b)) THEN Ord(Head(a)) < Ord(Head(b))
    ELSE StrLess(Tail(a), Tail(b))

StrLeq(a, b) == a = b \/ StrLess(a, b)

\* str.strip(): leading and trailing whitespace removed
RECURSIVE LStrip(_)
LStrip(s) == IF s # <<>> /\ Head(s) = " " THEN LStrip(Tail(s)) ELSE s
RECURSIVE RStrip(_)
RStrip(s) ==
    IF s # <<>> /\ s[Len(s)] = " " THEN RStrip(SubSeq(s, 1, Len(s) - 1)) ELSE s
Strip(s) == RStrip(LStrip(s))

ToUpper(c) == IF c \in DOMAIN UpperOf THEN UpperOf[c] ELSE c
ToLower(c) == IF c \in DOMAIN LowerOf THEN LowerOf[c] ELSE c
\* str.capitalize(): first character upper case, the rest lower case
Capitalize(s) ==
    [i \in 1..Len(s) |-> IF i = 1 THEN ToUpper(s[i]) ELSE ToLower(s[i])]

\* -------------------------------------------------- strptime / strftime
ValueError == 0 - 1

AllDigits(s) == \A i \in 1..Len(s) : IsDigit(s[i])
RECURSIVE Num(_)
Num(s) == IF s = <<>> THEN 0 ELSE 10 * Num(SubSeq(s, 1, Len(s) - 1)) + DigitVal(s[Len(s)])

\* datetime.strptime(s, "%H:%M") as minutes since 00:00, or ValueError:
\* one or two digits of hour (0..23), a colon, one or two digits of minute
\* (0..59), and nothing else
strptime(s) ==
    LET c == IF Len(s) >= 2 /\ s[2] = ":" THEN 2
             ELSE IF Len(s) >= 3 /\ s[3] = ":" THEN 3
             ELSE 0
        hh == SubSeq(s, 1, c - 1)
        mm == SubSeq(s, c + 1, Len(s))
    IN  IF /\ c # 0
           /\ Len(mm) \in {1, 2}
           /\ AllDigits(hh) /\ AllDigits(mm)
           /\ Num(hh) < 24 /\ Num(mm) < MinutesPerHour
        THEN Num(hh) * MinutesPerHour + Num(mm)
        ELSE ValueError

TwoDigits(n) == <<Digits[(n \div 10) + 1], Digits[(n % 10) + 1]>>
\* datetime.strftime("%H:%M") of a datetime given in minutes
strftime(t) ==
    TwoDigits((t % MinutesPerDay) \div MinutesPerHour) \o <<":">>
        \o TwoDigits(t % MinutesPerHour)

\* datetime.time(): the time of day of a datetime
TimeOf(dt) == dt % MinutesPerDay
\* datetime.date(): the day number of a datetime
DateOf(dt) == dt \div MinutesPerDay
\* date_obj.replace(hour=, minute=, second=0, microsecond=0)
Replace(date, tod) == date * MinutesPerDay + tod

\* datetime.isoformat() of a datetime with zero seconds, as its fields
isoformat(dt) ==
    [date |-> DateOf(dt),
     hour |-> TimeOf(dt) \div MinutesPerHour,
     minute |-> TimeOf(dt) % MinutesPerHour,
     second |-> 0]
\* datetime.fromisoformat()
fromisoformat(f) ==
    f.date * MinutesPerDay + f.hour * MinutesPerHour + f.minute

\* ------------------------------------------------------------ the names
Monday == <<"M", "o", "n", "d", "a", "y">>
Tuesday == <<"T", "u", "e", "s", "d", "a", "y">>
Wednesday == <<"W", "e", "d", "n", "e", "s", "d", "a", "y">>
Thursday == <<"T", "h", "u", "r", "s", "d", "a", "y">>
Friday == <<"F", "r", "i", "d", "a", "y">>
Saturday == <<"S", "a", "t", "u", "r", "d", "a", "y">>
Sunday == <<"S", "u", "n", "d", "a", "y">>
days == <<Monday, Tuesday, Wednesday, Thursday, Friday, Saturday, Sunday>>


\* ------------------------------------------------------------ the files
SCHEDULES_FILE == "schedules.json"
APPOINTMENTS_FILE == "appointments.json"
Files == {SCHEDULES_FILE, APPOINTMENTS_FILE}

\* raise HTTPException(status_code=...)
HTTPException(status_code) == [status_code |-> status_code]
Raised(result) == "status_code" \in DOMAIN result

\* load_json: the content of the file, or HTTPException(500) when the file
\* is not found or is not valid JSON
load_json(filename, content) ==
    IF filename \in unreadable THEN HTTPException(500) ELSE [data |-> content]

\* ------------------------------------------------------ pure functions
\* generate_time_slots: the loop of lines 51-54 from current_time on
RECURSIVE SlotsFrom(_, _, _)
SlotsFrom(current_time, end_time, interval) ==
    IF current_time < end_time
    THEN <<strftime(current_time)>>
             \o SlotsFrom(current_time + interval, end_time, interval)
    ELSE <<>>

\* generate_time_slots keeping only the slots that end by the end time
GenerateSlotsThatFit(start, end, interval) ==
    SlotsFrom(strptime(start), strptime(end) - interval + 1, interval)

generate_time_slots(start, end, interval) ==
    SlotsFrom(strptime(start), strptime(end), interval)

\* get_day_date taking the occurrence of next week when today is the day
GetDayDateAfterToday(day_name, today) ==
    LET name == Capitalize(day_name) IN
    IF ~InSeq(name, days) THEN ValueError
    ELSE LET target_day == IndexOf(name, days) - 1
             current_day == today % DaysPerWeek
             days_ahead == target_day - current_day
         IN  today + (IF days_ahead <= 0 THEN days_ahead + DaysPerWeek
                      ELSE days_ahead)

\* get_day_date: the date of the next occurrence of day_name on or after
\* today, or ValueError when days.index() finds no such name
get_day_date(day_name, today) ==
    LET name == Capitalize(day_name) IN
    IF ~InSeq(name, days) THEN ValueError
    ELSE LET target_day == IndexOf(name, days) - 1
             current_day == today % DaysPerWeek
             days_ahead == target_day - current_day
         IN  today + (IF days_ahead < 0 THEN days_ahead + DaysPerWeek
                      ELSE days_ahead)

\* is_time_in_range testing only whether the slot starts inside the booked
\* interval
IsTimeInRangeStartInside(time_str, start, end, date_obj) ==
    LET slot_datetime == Replace(date_obj, strptime(time_str))
    IN  start <= slot_datetime /\ slot_datetime < end

\* is_time_in_range: the slot time_str on the date date_obj overlaps the
\* booked [start, end)
is_time_in_range(time_str, start, end, date_obj) ==
    LET slot_datetime == Replace(date_obj, strptime(time_str))
        slot_end == slot_datetime + SlotMinutes
    IN  slot_datetime < end /\ slot_end > start

\* the two lunch strings of get_slots and log_booking
lunch_start == <<"1", "3", ":", "0", "0">>
lunch_end == <<"1", "4", ":", "0", "0">>

\* get_slots, lines 188-191: the lunch filter, on the slot strings
LunchFilter(slot) == ~(StrLeq(lunch_start, slot) /\ StrLess(slot, lunch_end))

\* get_slots, lines 196-204: the slots left after the first n appointments
RECURSIVE FilterBooked(_, _, _, _)
FilterBooked(slots, appts, n, day_date) ==
    IF n = 0 THEN slots
    ELSE LET before == FilterBooked(slots, appts, n - 1, day_date)
             appt_start == fromisoformat(appts[n].start_time)
             appt_end == fromisoformat(appts[n].end_time)
             Free(slot) == ~is_time_in_range(slot, appt_start, appt_end, day_date)
         IN  IF DateOf(appt_start) = day_date
             THEN SelectSeq(before, Free)
             ELSE before

\* the response texts, by their kind
Text(kind) == [kind |-> kind]

\* get_slots: the response for day, read from the two stores on the day today
get_slots(day_in, scheds, appts, today) ==
    LET day == Capitalize(day_in) IN
    IF Raised(load_json(SCHEDULES_FILE, scheds))
    THEN [response |-> Text("Error")]
    ELSE IF day \notin DOMAIN scheds THEN [response |-> Text("ClinicClosed")]
    ELSE
    LET schedule == scheds[day]
        all_slots == generate_time_slots(schedule.start_time, schedule.end_time,
                                         SlotMinutes)
        lunch_free == SelectSeq(all_slots, LunchFilter)
        day_date == get_day_date(day, today)
    IN  IF \/ strptime(schedule.start_time) = ValueError
           \/ strptime(schedule.end_time) = ValueError
           \/ day_date = ValueError
           \/ Raised(load_json(APPOINTMENTS_FILE, appts))
        THEN [response |-> Text("Error")]
        ELSE LET available_slots ==
                     FilterBooked(lunch_free, appts, Len(appts), day_date)
             IN  [response |-> Text(IF available_slots # <<>> THEN "Available"
                                    ELSE "FullyBooked"),
                  doctor |-> schedule.doctor,
                  day |-> day,
                  available_slots |-> available_slots]

\* log_booking, line 281: the slot is inside the working hours
WithinHours(work_start, work_end, slot_time_only, slot_end_time) ==
    /\ work_start <= slot_time_only /\ slot_time_only < work_end
    /\ work_start < slot_end_time /\ slot_end_time <= work_end

\* the lunch check on the start of the slot alone
InLunchStartOnly(slot_time_only, slot_end_time) ==
    LET ls == strptime(lunch_start)
        le == strptime(lunch_end)
    IN  ls <= slot_time_only /\ slot_time_only < le

\* log_booking, line 284: the slot falls in the lunch break
InLunch(slot_time_only, slot_end_time) ==
    LET ls == strptime(lunch_start)
        le == strptime(lunch_end)
    IN  \/ (ls <= slot_time_only /\ slot_time_only < le)
        \/ (ls < slot_end_time /\ slot_end_time <= le)

\* the conflict check comparing the slot starts only
ConflictSameStart(start_datetime, end_datetime, appt_start, appt_end) ==
    start_datetime = appt_start

\* the conflict check taking two slots that only touch as in conflict
ConflictTouching(start_datetime, end_datetime, appt_start, appt_end) ==
    ~(end_datetime < appt_start \/ start_datetime > appt_end)

\* log_booking, line 294: [start_datetime, end_datetime) overlaps the booked
\* [appt_start, appt_end)
Conflict(start_datetime, end_datetime, appt_start, appt_end) ==
    ~(end_datetime <= appt_start \/ start_datetime >= appt_end)

\* log_booking, lines 289-295: some appointment of the date is in conflict
SlotTaken(appts, day_date, start_datetime, end_datetime) ==
    \E i \in 1..Len(appts) :
        LET appt_start == fromisoformat(appts[i].start_time)
            appt_end == fromisoformat(appts[i].end_time)
        IN  /\ DateOf(appt_start) = day_date
            /\ Conflict(start_datetime, end_datetime, appt_start, appt_end)

\* the checks on the fields with the time parsed before the doctor is compared
BasicChecksTimeFirst(request, scheds) ==
    LET name == Strip(request.name)
        doctor == Strip(request.doctor)
        day == Capitalize(request.day)
        slot == Strip(request.slot)
    IN
    IF name = <<>> \/ doctor = <<>> \/ day = <<>> \/ slot = <<>>
    THEN "IncompleteRequest"
    ELSE IF Raised(load_json(SCHEDULES_FILE, scheds)) THEN "Error"
    ELSE IF day \notin DOMAIN scheds THEN "ClinicClosed"
    ELSE IF strptime(slot) = ValueError THEN "MalformedTime"
    ELSE IF scheds[day].doctor # doctor THEN "DoctorDayMismatch"
    ELSE ""

\* log_booking, lines 231-258: the checks on the fields of the request, in
\* the order of the code; "" when the request passes them all
BasicChecks(request, scheds) ==
    LET name == Strip(request.name)
        doctor == Strip(request.doctor)
        day == Capitalize(request.day)
        slot == Strip(request.slot)
    IN
    IF name = <<>> \/ doctor = <<>> \/ day = <<>> \/ slot = <<>>
    THEN "IncompleteRequest"
    ELSE IF Raised(load_json(SCHEDULES_FILE, scheds)) THEN "Error"
    ELSE IF day \notin DOMAIN scheds THEN "ClinicClosed"
    ELSE IF scheds[day].doctor # doctor THEN "DoctorDayMismatch"
    ELSE IF strptime(slot) = ValueError THEN "MalformedTime"
    ELSE ""

\* log_booking, line 279: the time of day at which the slot ends
slot_end_time(slot_time_only) == TimeOf(slot_time_only + SlotMinutes)

\* log_booking, lines 260-285: the checks of the slot against the working
\* hours and the lunch break; "" when the slot passes both
SlotChecks(request, scheds, today) ==
    LET day == Capitalize(request.day)
        slot_time_only == strptime(Strip(request.slot))
        work_start == strptime(scheds[day].start_time)
        work_end == strptime(scheds[day].end_time)
    IN
    IF \/ get_day_date(day, today) = ValueError
       \/ work_start = ValueError
       \/ work_end = ValueError
    THEN "Error"
    ELSE IF ~WithinHours(work_start, work_end, slot_time_only,
                         slot_end_time(slot_time_only))
    THEN "OutsideWorkingHours"
    ELSE IF InLunch(slot_time_only, slot_end_time(slot_time_only))
    THEN "LunchBreak"
    ELSE ""

\* log_booking, lines 231-285: the checks made before the appointment store
\* is read
Validate(request, scheds, today) ==
    LET basic == BasicChecks(request, scheds) IN
    IF basic # "" THEN basic ELSE SlotChecks(request, scheds, today)

\* the record to append with its end taken from slot_end_time, a time of day
\* on the date of the start
AppointmentEntryEndOfDay(request, today) ==
    LET day_date == get_day_date(Capitalize(request.day), today)
        slot_time_only == strptime(Strip(request.slot))
        start_datetime == Replace(day_date, slot_time_only)
        end_datetime == Replace(day_date, slot_end_time(slot_time_only))
    IN  [name |-> request.name,
         start_time |-> isoformat(start_datetime),
         end_time |-> isoformat(end_datetime)]

\* log_booking, lines 260-267 and 298-302: the record to append
appointment_entry(request, today) ==
    LET day_date == get_day_date(Capitalize(request.day), today)
        start_datetime == Replace(day_date, strptime(Strip(request.slot)))
        end_datetime == start_datetime + SlotMinutes
    IN  [name |-> Strip(request.name),
         start_time |-> isoformat(start_datetime),
         end_time |-> isoformat(end_datetime)]

\* the append and save made before the conflict check
DecideSaveFirst(request, scheds, appts, today) ==
    LET entry == appointment_entry(request, today)
        day_date == get_day_date(Capitalize(request.day), today)
    IN  IF Raised(load_json(APPOINTMENTS_FILE, appts))
        THEN [resp |-> [response |-> Text("Error")], saved |-> FALSE,
              store |-> appts]
        ELSE
        IF SlotTaken(appts, day_date, fromisoformat(entry.start_time),
                     fromisoformat(entry.end_time))
        THEN [resp |-> [response |-> Text("SlotTaken")], saved |-> TRUE,
              store |-> Append(appts, entry)]
        ELSE [resp |-> [response |-> Text("Booked"), status |-> "success",
                        appointment |-> entry],
              saved |-> TRUE,
              store |-> Append(appts, entry)]

\* log_booking, lines 288-316: with the list appts read from the store, the
\* response and the list to save (or the list as read when nothing is saved)
Decide(request, scheds, appts, today) ==
    LET entry == appointment_entry(request, today)
        day_date == get_day_date(Capitalize(request.day), today)
    IN  IF Raised(load_json(APPOINTMENTS_FILE, appts))
        THEN [resp |-> [response |-> Text("Error")], saved |-> FALSE,
              store |-> appts]
        ELSE
        IF SlotTaken(appts, day_date, fromisoformat(entry.start_time),
                     fromisoformat(entry.end_time))
        THEN [resp |-> [response |-> Text("SlotTaken")], saved |-> FALSE,
              store |-> appts]
        ELSE [resp |-> [response |-> Text("Booked"), status |-> "success",
                        appointment |-> entry],
              saved |-> TRUE,
              store |-> Append(appts, entry)]

\* the response of a request rejected by the check of the given kind
Rejection(kind, request, scheds) ==
    IF kind = "DoctorDayMismatch"
    THEN [response |-> [kind |-> kind,
                        available |-> scheds[Capitalize(request.day)].doctor]]
    ELSE [response |-> Text(kind)]

\* log_booking as a whole, run without interruption on the store appts
log_booking(request, scheds, appts, today) ==
    LET kind == Validate(request, scheds, today) IN
    IF kind # ""
    THEN [resp |-> Rejection(kind, request, scheds), saved |-> FALSE,
          store |-> appts]
    ELSE Decide(request, scheds, appts, today)

\* delete_appointment passing every index that list.pop() accepts, a
\* negative index counting from the end of the list
DeleteAppointmentFromEnd(index, appts) ==
    IF 0 - Len(appts) <= index /\ index < Len(appts)
    THEN LET at == IF index < 0 THEN Len(appts) + index ELSE index IN
         [resp |-> [status |-> "success", deleted |-> appts[at + 1]],
          store |-> SubSeq(appts, 1, at) \o SubSeq(appts, at + 2, Len(appts))]
    ELSE [resp |-> HTTPException(404), store |-> appts]

\* delete_appointment: the list after appointments.pop(index) and the response
delete_appointment(index, appts) ==
    IF Raised(load_json(APPOINTMENTS_FILE, appts))
    THEN [resp |-> HTTPException(500), store |-> appts]
    ELSE
    IF 0 <= index /\ index < Len(appts)
    THEN [resp |-> [status |-> "success", deleted |-> appts[index + 1]],
          store |-> SubSeq(appts, 1, index) \o SubSeq(appts, index + 2, Len(appts))]
    ELSE [resp |-> HTTPException(404), store |-> appts]


\* --------------------------------------------------------------- inputs
\* "HH:MM" with the given hour and minute
HM(h, m) == TwoDigits(h) \o <<":">> \o TwoDigits(m)

DrA == <<"D", "r", ".", " ", "A">>
DrB == <<"D", "r", ".", " ", "B">>
Ann == <<"A", "n", "n">>
Blank == <<" ">>
NineAm == <<"9", "a", "m">>

DaySchedule(doctor, start_time, end_time) ==
    [doctor |-> doctor, start_time |-> start_time, end_time |-> end_time]

\* the contents of schedules.json the program is run with: the hours of the
\* scenario (09:00-17:00) with a short second day, a grid on the quarter
\* hours, a day open around the clock, and a day whose hours are empty
ScheduleStores ==
    { (Monday :> DaySchedule(DrA, HM(9, 0), HM(17, 0)))
          @@ (Tuesday :> DaySchedule(DrB, <<"9", ":", "0", "0">>, HM(9, 30))),
      (Monday :> DaySchedule(DrA, HM(8, 45), HM(17, 0))),
      (Saturday :> DaySchedule(DrB, HM(0, 0), HM(23, 59))),
      (Monday :> DaySchedule(DrA, HM(17, 0), HM(9, 0))) }

\* the slot strings of the booking requests for Monday
SlotInputs ==
    { HM(9, 0), HM(9, 15), HM(12, 45), HM(13, 0), HM(13, 30), HM(13, 45),
      HM(14, 0), HM(16, 45), HM(17, 0), HM(23, 45),
      <<" ", "9", ":", "0", "0">>, <<"2", "4", ":", "0", "0">> }

LowerTuesday == <<"t", "u", "e", "s", "d", "a", "y">>

DayInputs == { Monday, Tuesday, LowerTuesday, Saturday, Sunday }

Request(name, doctor, day, slot) ==
    [name |-> name, doctor |-> doctor, day |-> day, slot |-> slot]

\* the booking requests: every slot string for the doctor of Monday, a slot
\* of Tuesday, the slots around lunch and around midnight for the doctor of
\* Saturday, and the requests that fail one or several of the checks
Requests ==
    { Request(Ann, DrA, Monday, slot) : slot \in SlotInputs }
        \cup { Request(Ann, DrB, LowerTuesday, HM(9, 0)) }
        \cup { Request(Ann, DrB, Saturday, slot) :
                   slot \in {HM(12, 30), HM(23, 30), HM(23, 45)} }
        \cup { Request(name, doctor, day, slot) :
                   name \in {Ann, Blank}, doctor \in {DrA, DrB},
                   day \in {Monday, Sunday}, slot \in {HM(9, 0), NineAm} }
        \cup { Request(Ann, DrA, Blank, HM(9, 0)),
               Request(Ann, DrA, <<>>, HM(9, 0)) }

\* the booking requests served concurrently
LoopRequests ==
    { Request(Ann, DrA, Monday, slot) :
          slot \in {HM(9, 0), HM(9, 15), HM(13, 30), HM(14, 0)} }
        \cup { Request(Ann, DrB, LowerTuesday, HM(9, 0)),
               Request(Ann, DrB, Saturday, HM(23, 45)) }

\* ---------------------------------------------------------------- state
vars == <<appointments, schedules, now, op, req, resp, tasks, running,
          unreadable>>

NoRequest == [none |-> TRUE]
NoResponse == [none |-> TRUE]

Tasks == 1..MaxTasks
IdleTask == [pc |-> "idle", request |-> NoRequest, appts |-> <<>>,
             resp |-> NoResponse]

Init ==
    /\ appointments = <<>>
    /\ schedules \in ScheduleStores
    /\ now \in 0..MaxDay
    /\ op = "none"
    /\ req = NoRequest
    /\ resp = NoResponse
    /\ tasks = [t \in Tasks |-> IdleTask]
    /\ running = 0
    /\ unreadable = {}

\* ------------------------------------- one request served after another
\* POST /log_booking
LogBooking(request) ==
    \E out \in {log_booking(request, schedules, appointments, now)} :
        /\ Len(out.store) <= MaxAppts
        /\ appointments' = out.store
        /\ op' = "log_booking"
        /\ req' = request
        /\ resp' = out.resp
        /\ UNCHANGED <<schedules, now, tasks, running, unreadable>>

\* get_slots saving the store without the appointments of the dates
\* before today
GetSlotsPruning(day) ==
    LET NotPast(a) == a.start_time.date >= now IN
    /\ appointments' = SelectSeq(appointments, NotPast)
    /\ op' = "get_slots"
    /\ req' = [day |-> day]
    /\ resp' = get_slots(day, schedules, appointments, now)
    /\ UNCHANGED <<schedules, now, tasks, running, unreadable>>

\* GET /get_slots/{day}
GetSlots(day) ==
    /\ op' = "get_slots"
    /\ req' = [day |-> day]
    /\ resp' = get_slots(day, schedules, appointments, now)
    /\ UNCHANGED <<appointments, schedules, now, tasks, running, unreadable>>

\* DELETE /appointments/{index}
DeleteAppointment(index) ==
    \E out \in {delete_appointment(index, appointments)} :
        /\ appointments' = out.store
        /\ op' = "delete_appointment"
        /\ req' = [index |-> index]
        /\ resp' = out.resp
        /\ UNCHANGED <<schedules, now, tasks, running, unreadable>>

\* DELETE /appointments/clear
ClearAllAppointments ==
    /\ appointments' = <<>>
    /\ op' = "clear_all_appointments"
    /\ req' = NoRequest
    /\ resp' = [status |-> "success"]
    /\ unreadable' = unreadable \ {APPOINTMENTS_FILE}
    /\ UNCHANGED <<schedules, now, tasks, running>>

\* midnight passes between two requests
Tick ==
    /\ now < MaxDay
    /\ now' = now + 1
    /\ op' = "none"
    /\ req' = NoRequest
    /\ resp' = NoResponse
    /\ UNCHANGED <<appointments, schedules, tasks, running, unreadable>>

Next ==
    \/ \E request \in Requests : LogBooking(request)
    \/ \E day \in DayInputs : GetSlots(day)
    \/ \E index \in (0 - 1)..MaxAppts : DeleteAppointment(index)
    \/ ClearAllAppointments
    \/ Tick

Spec == Init /\ [][Next]_vars

\* ------------------------------------------- requests with a file missing
\* a file is removed, or its content is replaced by text that is not JSON,
\* from outside the program
FileLost(filename) ==
    /\ filename \notin unreadable
    /\ unreadable' = unreadable \cup {filename}
    /\ op' = "none"
    /\ req' = NoRequest
    /\ resp' = NoResponse
    /\ UNCHANGED <<appointments, schedules, now, tasks, running>>

\* the file is put back with the content it had
FileRestored(filename) ==
    /\ filename \in unreadable
    /\ unreadable' = unreadable \ {filename}
    /\ op' = "none"
    /\ req' = NoRequest
    /\ resp' = NoResponse
    /\ UNCHANGED <<appointments, schedules, now, tasks, running>>

\* the booking requests sent while files come and go: two that can be
\* committed and one for each of the checks on the fields
StoreRequests ==
    { Request(Ann, DrA, Monday, HM(9, 0)),
      Request(Ann, DrA, Monday, HM(14, 0)),
      Request(Blank, DrA, Monday, HM(9, 0)),
      Request(Ann, DrA, Sunday, HM(9, 0)),
      Request(Ann, DrB, Monday, HM(9, 0)),
      Request(Ann, DrA, Monday, NineAm) }

NextStore ==
    \/ \E request \in StoreRequests : LogBooking(request)
    \/ \E day \in {Monday, Sunday} : GetSlots(day)
    \/ \E index \in 0..MaxAppts : DeleteAppointment(index)
    \/ ClearAllAppointments
    \/ \E filename \in Files : FileLost(filename)
    \/ \E filename \in Files : FileRestored(filename)

SpecStore == Init /\ [][NextStore]_vars

\* ------------------------------------------ requests served concurrently
\* The handlers are coroutines (async def) of one event loop
\* (uvicorn.run(app)).  The loop runs a coroutine until it awaits or returns;
\* log_booking awaits nothing, so the loop gives its turn to another
\* coroutine only when log_booking has returned.
\* the loop of a handler that gives up its turn between any two of its lines
MayRunAnyTime(t) == t \in Tasks

MayRun(t) == running = 0 \/ running = t

\* the lines of log_booking the coroutine t runs next
At(t, pc) == tasks[t].pc = pc /\ MayRun(t)

\* a booking request arrives and its coroutine is scheduled
Arrive(t, request) ==
    /\ tasks[t].pc = "idle"
    /\ tasks' = [tasks EXCEPT ![t] = [IdleTask EXCEPT !.pc = "ready",
                                                      !.request = request]]
    /\ UNCHANGED <<appointments, schedules, now, op, req, resp, running, unreadable>>

\* lines 231-285: the checks before the store is read
Begin(t) ==
    /\ At(t, "ready")
    /\ \E kind \in {Validate(tasks[t].request, schedules, now)} :
       IF kind # ""
       THEN /\ tasks' = [tasks EXCEPT
                  ![t].pc = "done",
                  ![t].resp = Rejection(kind, tasks[t].request, schedules)]
            /\ running' = 0
       ELSE /\ tasks' = [tasks EXCEPT ![t].pc = "validated"]
            /\ running' = t
    /\ UNCHANGED <<appointments, schedules, now, op, req, resp, unreadable>>

\* line 288: appointments = load_json(APPOINTMENTS_FILE)
Load(t) ==
    /\ At(t, "validated")
    /\ tasks' = [tasks EXCEPT ![t].pc = "loaded", ![t].appts = appointments]
    /\ running' = t
    /\ UNCHANGED <<appointments, schedules, now, op, req, resp, unreadable>>

\* lines 289-316: the conflict check on the list that was read, then the
\* append to that list and save_json of it
Commit(t) ==
    /\ At(t, "loaded")
    /\ \E out \in {Decide(tasks[t].request, schedules, tasks[t].appts, now)} :
           /\ tasks' = [tasks EXCEPT ![t].pc = "done", ![t].appts = out.store,
                                     ![t].resp = out.resp]
           /\ appointments' = IF out.saved THEN out.store ELSE appointments
    /\ running' = 0
    /\ UNCHANGED <<schedules, now, op, req, resp, unreadable>>

NextLoop ==
    \/ \E t \in Tasks, request \in LoopRequests : Arrive(t, request)
    \/ \E t \in Tasks : Begin(t)
    \/ \E t \in Tasks : Load(t)
    \/ \E t \in Tasks : Commit(t)

SpecLoop == Init /\ [][NextLoop]_vars

\* ----------------------------------------- the functions on their own
\* the slot strings and the booked intervals the two overlap checks are
\* applied to: slots before, inside, across and after the booked interval,
\* touching it at either end, and an interval that runs past midnight
OverlapSlots ==
    { HM(0, 0), HM(8, 30), HM(8, 45), HM(9, 0), HM(9, 15), HM(9, 30),
      HM(9, 45), HM(10, 0), HM(23, 30), HM(23, 45) }
OverlapStarts == { strptime(t) : t \in {HM(0, 0), HM(9, 0), HM(9, 15), HM(23, 45)} }
OverlapLengths == { 15, 30, 60 }

\* get_slots (line 203) and log_booking (line 294) on the same slot of the
\* date day_date and the same appointment [appt_start, appt_end) of that date
Overlap(slot, day_date, appt_start, appt_end) ==
    /\ op' = "overlap"
    /\ req' = [slot |-> slot, day_date |-> day_date,
               appt_start |-> appt_start, appt_end |-> appt_end]
    /\ resp' = LET start_datetime == Replace(day_date, strptime(slot))
                   end_datetime == start_datetime + SlotMinutes
               IN  [in_range |-> is_time_in_range(slot, appt_start, appt_end,
                                                  day_date),
                    conflict |-> Conflict(start_datetime, end_datetime,
                                          appt_start, appt_end)]
    /\ UNCHANGED <<appointments, schedules, now, tasks, running, unreadable>>

\* the reference days (datetime.now()) get_day_date is called on: two weeks
ReferenceDays == 0..(2 * DaysPerWeek - 1)
\* the day names it is called with
DayNames == Range(days) \cup {LowerTuesday}

\* get_day_date(day_name) called on the day today
GetDayDate(day_name, today) ==
    /\ op' = "get_day_date"
    /\ req' = [day_name |-> day_name, today |-> today]
    /\ resp' = [date |-> get_day_date(day_name, today)]
    /\ UNCHANGED <<appointments, schedules, now, tasks, running, unreadable>>

\* the booking requests that use the date: one for the day of the
\* scenario, and one for a day the clinic is closed
DatedRequests ==
    { Request(Ann, DrA, Monday, HM(9, 0)),
      Request(Ann, DrB, Saturday, HM(23, 45)) }

\* the start and end times and the intervals generate_time_slots is called
\* with: intervals that divide the hours and intervals that do not, over the
\* working day, and the interval of one minute over half an hour
WorkTimes ==
    { HM(8, 45), HM(9, 0), <<"9", ":", "0", "0">>, HM(9, 1), HM(9, 30),
      HM(10, 0), HM(17, 0), HM(23, 59) }
Intervals == { 20, 30, 45, 60 }
ShortTimes == { HM(9, 0), HM(9, 1), HM(9, 15), HM(9, 30) }
SlotCalls ==
    (WorkTimes \X WorkTimes \X Intervals)
        \cup (ShortTimes \X ShortTimes \X {1, 7})

\* generate_time_slots(start, end, interval)
GenerateTimeSlots(start, end, interval) ==
    /\ op' = "generate_time_slots"
    /\ req' = [start |-> start, end |-> end, interval |-> interval]
    /\ resp' = [slots |-> generate_time_slots(start, end, interval)]
    /\ UNCHANGED <<appointments, schedules, now, tasks, running, unreadable>>

NextPure ==
    \/ \E call \in SlotCalls : GenerateTimeSlots(call[1], call[2], call[3])
    \/ \E day_name \in DayNames, today \in ReferenceDays :
           GetDayDate(day_name, today)
    \/ \E request \in DatedRequests : LogBooking(request)
    \/ \E slot \in OverlapSlots, day_date \in 0..MaxDay,
          tod \in OverlapStarts, length \in OverlapLengths :
           Overlap(slot, day_date, Replace(day_date, tod),
                   Replace(day_date, tod) + length)

\* the functions are called with the schedule of the scenario in place
InitPure ==
    /\ Init
    /\ Monday \in DOMAIN schedules /\ Tuesday \in DOMAIN schedules

SpecPure == InitPure /\ [][NextPure]_vars

\* ======================================================================
\* The properties.  They are stated on the stored records and on the
\* strings of the requests and responses, with the definitions below.
\* ======================================================================
\* the minute, counted from 00:00 of day 0, that a stored date+time names
Instant(f) == ((f.date * 24) + f.hour) * 60 + f.minute
StartOf(a) == Instant(a.start_time)
EndOf(a) == Instant(a.end_time)
\* the calendar date of an appointment is the date it starts on
SameDate(a, b) == a.start_time.date = b.start_time.date
\* half-open overlap of [s1, e1) and [s2, e2)
HalfOpenOverlap(s1, e1, s2, e2) == s1 < e2 /\ s2 < e1
LunchFrom == 13 * 60
LunchTo == 14 * 60

IsSuccess(r) == "status" \in DOMAIN r /\ r.status = "success"
KindOf(r) == IF "response" \in DOMAIN r THEN r.response.kind ELSE ""
Booked(r) == IsSuccess(r) /\ "appointment" \in DOMAIN r

\* the date a weekday name resolves to: the first day from today on that
\* falls on that weekday
ResolvedDate(day, today) ==
    CHOOSE d \in today..(today + 6) : days[(d % 7) + 1] = day

\* C1: no two stored appointments of the same calendar date overlap, in
\* any state reached by requests served one after another.
C1_NoDoubleBooking ==
    \A i, j \in 1..Len(appointments) :
        (i < j /\ SameDate(appointments[i], appointments[j]))
            => ~HalfOpenOverlap(StartOf(appointments[i]), EndOf(appointments[i]),
                                StartOf(appointments[j]), EndOf(appointments[j]))

\* two appointments of one date are stored and a third request, in conflict
\* with one of them, has just been refused
C1_Witness ==
    /\ op = "log_booking" /\ KindOf(resp) = "SlotTaken"
    /\ \E i, j \in 1..Len(appointments) :
           i < j /\ SameDate(appointments[i], appointments[j])

\* C2: with two booking requests served concurrently, the read of the store
\* and the append-and-save of a request are one critical section: while a
\* request is between its read and its write the store is still the list it
\* read, and no two requests for overlapping slots of one date both commit.
C2_AtomicReadThenAppend ==
    /\ \A t \in Tasks : tasks[t].pc = "loaded" => tasks[t].appts = appointments
    /\ \A t, u \in Tasks :
           (t # u /\ Booked(tasks[t].resp) /\ Booked(tasks[u].resp)
                  /\ SameDate(tasks[t].resp.appointment, tasks[u].resp.appointment))
               => ~HalfOpenOverlap(StartOf(tasks[t].resp.appointment),
                                   EndOf(tasks[t].resp.appointment),
                                   StartOf(tasks[u].resp.appointment),
                                   EndOf(tasks[u].resp.appointment))

\* two requests for overlapping slots of Monday were in flight together:
\* one is committed, the other was refused as taken
C2_Witness ==
    \E t, u \in Tasks :
        /\ t # u
        /\ tasks[t].pc = "done" /\ tasks[u].pc = "done"
        /\ tasks[t].request.slot = HM(9, 0) /\ tasks[u].request.slot = HM(9, 15)
        /\ Booked(tasks[t].resp) /\ KindOf(tasks[u].resp) = "SlotTaken"

\* C3: every slot that get_slots lists, submitted at once to log_booking
\* for the same day, its doctor and a non-empty name, is committed.
C3_RoundTrip ==
    [][(/\ op = "get_slots" /\ "available_slots" \in DOMAIN resp
        /\ op' = "log_booking" /\ now' = now
        /\ Capitalize(req'.day) = resp.day
        /\ Strip(req'.doctor) = resp.doctor
        /\ Strip(req'.name) # <<>>
        /\ InSeq(req'.slot, resp.available_slots))
           => IsSuccess(resp')]_vars

\* C4: every stored appointment lies inside the working hours of the
\* DaySchedule of its weekday, start and end taken as times of day of the
\* date it starts on, and does not overlap the lunch window.
C4_InsideHoursOutsideLunch ==
    \A i \in 1..Len(appointments) :
        LET a == appointments[i]
            midnight == a.start_time.date * MinutesPerDay
            day == days[(a.start_time.date % 7) + 1]
            s == StartOf(a) - midnight
            e == EndOf(a) - midnight
        IN  /\ day \in DOMAIN schedules
            /\ strptime(schedules[day].start_time) <= s
            /\ e <= strptime(schedules[day].end_time)
            /\ ~HalfOpenOverlap(s, e, LunchFrom, LunchTo)

\* the strings that are a time of day in 24-hour form
NumberTexts(n) ==
    {TwoDigits(n)} \cup (IF n < 10 THEN {<<Digits[n + 1]>>} ELSE {})
ClockTexts ==
    UNION { { hh \o <<":">> \o mm : hh \in NumberTexts(h), mm \in NumberTexts(m) } :
            <<h, m>> \in (0..23) \X (0..59) }

\* the checks of a booking request in their order, each on its own: the
\* set of the checks the request fails against the store appts
FailedChecks(request, scheds, appts, today) ==
    LET day == Capitalize(request.day)
        open == day \in DOMAIN scheds
        timed == Strip(request.slot) \in ClockTexts
        s == strptime(Strip(request.slot))
        e == slot_end_time(s)
        date == ResolvedDate(day, today)
    IN  (IF \E f \in {Strip(request.name), Strip(request.doctor), request.day,
                      Strip(request.slot)} : f = <<>>
         THEN {"IncompleteRequest"} ELSE {})
        \cup (IF ~open THEN {"ClinicClosed"} ELSE {})
        \cup (IF open /\ scheds[day].doctor # Strip(request.doctor)
              THEN {"DoctorDayMismatch"} ELSE {})
        \cup (IF ~timed THEN {"MalformedTime"} ELSE {})
        \cup (IF open /\ timed
                 /\ ~WithinHours(strptime(scheds[day].start_time),
                                 strptime(scheds[day].end_time), s, e)
              THEN {"OutsideWorkingHours"} ELSE {})
        \cup (IF timed /\ InLunch(s, e) THEN {"LunchBreak"} ELSE {})
        \cup (IF open /\ timed
                 /\ \E i \in 1..Len(appts) :
                        /\ appts[i].start_time.date = date
                        /\ HalfOpenOverlap(date * MinutesPerDay + s,
                                           date * MinutesPerDay + s + SlotMinutes,
                                           StartOf(appts[i]), EndOf(appts[i]))
              THEN {"SlotTaken"} ELSE {})

CheckOrder ==
    <<"IncompleteRequest", "ClinicClosed", "DoctorDayMismatch", "MalformedTime",
      "OutsideWorkingHours", "LunchBreak", "SlotTaken">>

\* the first check of the order that the request fails, "Booked" when it
\* fails none
FirstFailure(failed) ==
    IF failed = {} THEN "Booked"
    ELSE CheckOrder[CHOOSE k \in 1..Len(CheckOrder) :
                        /\ CheckOrder[k] \in failed
                        /\ \A l \in 1..(k - 1) : CheckOrder[l] \notin failed]

PassedBasicChecks ==
    /\ op = "log_booking"
    /\ KindOf(resp) \notin {"IncompleteRequest", "ClinicClosed",
                            "DoctorDayMismatch", "MalformedTime", "Error"}

\* C6: a request that passes checks 1-4 is refused as outside the working
\* hours exactly when not (workStart <= s < workEnd and workStart < e <=
\* workEnd), with s the slot start and e = s + 30 minutes.
C6_WorkingHoursCheck ==
    PassedBasicChecks =>
        LET schedule == schedules[Capitalize(req.day)]
            work_start == strptime(schedule.start_time)
            work_end == strptime(schedule.end_time)
            s == strptime(Strip(req.slot))
            e == s + SlotMinutes
        IN  (KindOf(resp) = "OutsideWorkingHours")
                <=> ~(/\ work_start <= s /\ s < work_end
                      /\ work_start < e /\ e <= work_end)

\* C7: a request that passes the working-hours check is refused for the
\* lunch break exactly when [s, s + 30) overlaps [13:00, 14:00).
C7_LunchCheck ==
    (PassedBasicChecks /\ KindOf(resp) # "OutsideWorkingHours") =>
        LET s == strptime(Strip(req.slot)) IN
        (KindOf(resp) = "LunchBreak")
            <=> HalfOpenOverlap(s, s + SlotMinutes, LunchFrom, LunchTo)

\* a slot that starts before 13:00 and ends after it was refused for lunch
C7_Witness ==
    /\ PassedBasicChecks /\ KindOf(resp) = "LunchBreak"
    /\ strptime(Strip(req.slot)) < LunchFrom

\* the slots 09:00..16:30 without 13:00 and 13:30
ScenarioSlots ==
    [k \in 1..14 |-> IF k <= 8 THEN strftime(9 * 60 + (k - 1) * 30)
                     ELSE strftime(14 * 60 + (k - 9) * 30)]

\* the schedule of the scenarios: Monday 09:00-17:00
ScenarioMonday ==
    /\ Monday \in DOMAIN schedules
    /\ schedules[Monday].start_time = HM(9, 0)
    /\ schedules[Monday].end_time = HM(17, 0)

\* the stored appointments of the date that day resolves to
BookedOn(day) ==
    {i \in 1..Len(appointments) :
         appointments[i].start_time.date = ResolvedDate(day, now)}

\* C8: no slot that get_slots lists overlaps the lunch window [13:00, 14:00)
\* at all; for Monday 09:00-17:00 with no appointment the list is the 16
\* slots 09:00..16:30 without 13:00 and 13:30.
C8_NoLunchSlotListed ==
    (op = "get_slots" /\ "available_slots" \in DOMAIN resp) =>
        /\ \A i \in 1..Len(resp.available_slots) :
               LET s == strptime(resp.available_slots[i]) IN
               ~HalfOpenOverlap(s, s + SlotMinutes, LunchFrom, LunchTo)
        /\ (resp.day = Monday /\ ScenarioMonday /\ BookedOn(Monday) = {})
               => /\ resp.available_slots = ScenarioSlots
                  /\ Len(resp.available_slots) = 16

\* the slots of the grid of a DaySchedule, in order, that do not start in
\* the lunch hour and overlap no stored appointment of the resolved date
ExpectedSlots(day) ==
    LET work_start == strptime(schedules[day].start_time)
        work_end == strptime(schedules[day].end_time)
        n == IF work_start < work_end
             THEN (work_end - work_start + SlotMinutes - 1) \div SlotMinutes
             ELSE 0
        grid == [k \in 1..n |-> work_start + (k - 1) * SlotMinutes]
        date == ResolvedDate(day, now)
        Listed(s) ==
            /\ ~(LunchFrom <= s /\ s < LunchTo)
            /\ \A i \in BookedOn(day) :
                   ~HalfOpenOverlap(date * MinutesPerDay + s,
                                    date * MinutesPerDay + s + SlotMinutes,
                                    StartOf(appointments[i]), EndOf(appointments[i]))
        kept == SelectSeq(grid, Listed)
    IN  [k \in 1..Len(kept) |-> HM(kept[k] \div 60, kept[k] % 60)]

\* get_slots lists exactly the expected slots, and no slot at which an
\* appointment of the resolved date starts
ListsExpectedSlots ==
    /\ resp.available_slots = ExpectedSlots(resp.day)
    /\ \A i \in BookedOn(resp.day) :
           ~InSeq(HM(appointments[i].start_time.hour,
                     appointments[i].start_time.minute),
                  resp.available_slots)

\* Monday 09:00-17:00 with Monday 09:00 as the one appointment of the date
ScenarioBooked ==
    /\ resp.day = Monday /\ ScenarioMonday
    /\ \E i \in 1..Len(appointments) :
           /\ BookedOn(Monday) = {i}
           /\ appointments[i].start_time.hour = 9
           /\ appointments[i].start_time.minute = 0

C10_RejectionKeepsStore ==
    [][(op' = "log_booking" /\ ~IsSuccess(resp')) => appointments' = appointments]_vars

\* a booking was refused as taken, with the store not empty
C10_Witness ==
    op = "log_booking" /\ KindOf(resp) = "SlotTaken" /\ appointments # <<>>

\* C11: a get_slots request changes neither the appointment store nor the
\* schedule store, and a get_slots request that follows another for the same
\* day (whatever the case of its letters) on the same reference day, with no
\* other request in between, returns the same doctor, day and
\* available_slots.
C11_ReadOnlyIdempotent ==
    [][op' = "get_slots" =>
           /\ appointments' = appointments
           /\ schedules' = schedules
           /\ (/\ op = "get_slots" /\ now' = now
               /\ Capitalize(req'.day) = Capitalize(req.day))
                  => resp' = resp]_vars

\* get_slots has answered with a list of slots while an appointment of an
\* earlier date and one of the resolved date are stored
C11_Witness ==
    /\ op = "get_slots" /\ "available_slots" \in DOMAIN resp
    /\ \E i \in 1..Len(appointments) : appointments[i].start_time.date < now
    /\ BookedOn(resp.day) # {}

\* C12: every stored appointment ends 30 minutes after it starts, has a
\* patient name that is not empty, and has start and end with zero seconds,
\* in every state reached by booking, delete and clear requests.
C12_FixedDuration ==
    \A i \in 1..Len(appointments) :
        LET a == appointments[i] IN
        /\ EndOf(a) = StartOf(a) + 30
        /\ a.name # <<>>
        /\ a.start_time.second = 0 /\ a.end_time.second = 0
        /\ a.start_time.minute \in 0..59 /\ a.end_time.minute \in 0..59
        /\ a.start_time.hour \in 0..23 /\ a.end_time.hour \in 0..23

\* an appointment that ends on the day after it starts is stored, after a
\* delete request
C12_Witness ==
    /\ op = "delete_appointment"
    /\ \E i \in 1..Len(appointments) :
           appointments[i].end_time.date = appointments[i].start_time.date + 1

\* the request ended as a failure of the request itself (a server error),
\* not as a response
HardFailure(r) == "status_code" \in DOMAIN r /\ r.status_code >= 500

\* the request reads the schedule store: every get_slots request, and a
\* booking request with all its fields
ReadsSchedules(o, request) ==
    \/ o = "get_slots"
    \/ /\ o = "log_booking"
       /\ \A f \in {Strip(request.name), Strip(request.doctor), request.day,
                     Strip(request.slot)} : f # <<>>

\* the request reads the appointment store: a get_slots request for a day
\* the clinic is open, and a booking request that fails none of the checks
\* made on the request and the schedule
ReadsAppointments(o, request) ==
    \/ o = "get_slots" /\ Capitalize(request.day) \in DOMAIN schedules
    \/ /\ o = "log_booking"
       /\ FailedChecks(request, schedules, <<>>, now) = {}

\* C13: a get_slots or log_booking request during which the read of the
\* schedule store or of the appointment store fails ends as a hard failure
\* of the request, no other request does, and the appointment store is
\* left as it was.
C13_StoreUnavailableIsHardFailure ==
    [][op' \in {"get_slots", "log_booking"} =>
           \A failed \in {\/ /\ SCHEDULES_FILE \in unreadable
                             /\ ReadsSchedules(op', req')
                          \/ /\ unreadable = {APPOINTMENTS_FILE}
                             /\ ReadsAppointments(op', req')} :
               /\ failed <=> HardFailure(resp')
               /\ failed => appointments' = appointments]_vars

\* C14: with booking requests served concurrently and no delete or clear
\* request, no step removes or changes a stored record, and every request
\* that was answered with success has its record in the store, in
\* particular when all the requests have finished.
C14_NoCommittedBookingLost ==
    /\ [](\A t \in Tasks :
              Booked(tasks[t].resp) =>
                  InSeq(tasks[t].resp.appointment, appointments))
    /\ [][/\ Len(appointments') >= Len(appointments)
           /\ SubSeq(appointments', 1, Len(appointments)) = appointments]_vars

\* two requests for slots that do not overlap have both finished with
\* success
C14_Witness ==
    \E t, u \in Tasks :
        /\ t # u
        /\ tasks[t].pc = "done" /\ tasks[u].pc = "done"
        /\ Booked(tasks[t].resp) /\ Booked(tasks[u].resp)
        /\ SameDate(tasks[t].resp.appointment, tasks[u].resp.appointment)
        /\ Len(appointments) = 2

\* C15: on every slot start s of the resolved date and every appointment
\* [a, b) of that date, is_time_in_range of get_slots and the conflict test
\* of log_booking give the same result, which is the half-open rule
\* s < b and a < s + 30 minutes.
C15_OverlapChecksAgree ==
    op = "overlap" =>
        LET s == req.day_date * MinutesPerDay + strptime(req.slot) IN
        /\ resp.in_range = resp.conflict
        /\ resp.conflict <=> (s < req.appt_end /\ req.appt_start < s + 30)

\* both checks were applied to a slot that ends where the appointment
\* starts, and to one that starts where it ends
C15_Witness ==
    /\ op = "overlap"
    /\ LET s == req.day_date * MinutesPerDay + strptime(req.slot) IN
       s + 30 = req.appt_start \/ s = req.appt_end

\* the weekday name of a date
WeekdayOf(date) == days[(date % 7) + 1]

\* C16: for each of the seven day names and every reference day,
\* get_day_date returns today + k with k in 0..6 and the result on the
\* requested weekday (so k is the one such offset), and k = 0 exactly when
\* today is that weekday; every appointment a booking commits is dated on
\* the requested weekday, on the booking day or at most 6 days after it.
C16_DateResolver ==
    /\ op = "get_day_date" =>
           /\ resp.date - req.today \in 0..6
           /\ WeekdayOf(resp.date) = Capitalize(req.day_name)
           /\ resp.date = req.today <=>
                  WeekdayOf(req.today) = Capitalize(req.day_name)
    /\ (op = "log_booking" /\ IsSuccess(resp)) =>
           /\ WeekdayOf(resp.appointment.start_time.date) = Capitalize(req.day)
           /\ resp.appointment.start_time.date - now \in 0..6
           /\ InSeq(resp.appointment, appointments)

\* a booking for Monday made on a Tuesday was committed, dated 6 days later
C16_Witness ==
    /\ op = "log_booking" /\ IsSuccess(resp)
    /\ resp.appointment.start_time.date = now + 6

\* C17: generate_time_slots returns exactly the labels of workStart,
\* workStart + interval, workStart + 2 * interval, ... below workEnd, in
\* that order: strictly increasing, none at or after workEnd, none when
\* workStart >= workEnd, and the last one kept even when it ends after
\* workEnd.
C17_SlotGenerator ==
    op = "generate_time_slots" =>
        LET work_start == strptime(req.start)
            work_end == strptime(req.end)
            n == IF work_start < work_end
                 THEN (work_end - work_start + req.interval - 1) \div req.interval
                 ELSE 0
            Minute(k) == work_start + (k - 1) * req.interval
        IN  /\ Len(resp.slots) = n
            /\ \A k \in 1..n :
                   /\ resp.slots[k] = HM(Minute(k) \div 60, Minute(k) % 60)
                   /\ strptime(resp.slots[k]) < work_end
                   /\ k > 1 => strptime(resp.slots[k - 1]) < strptime(resp.slots[k])
            /\ n > 0 => strptime(resp.slots[n]) + req.interval >= work_end
            /\ work_start >= work_end => resp.slots = <<>>

\* the slots were generated for hours the interval does not divide: the
\* last slot ends after the end time
C17_Witness ==
    /\ op = "generate_time_slots" /\ resp.slots # <<>>
    /\ strptime(resp.slots[Len(resp.slots)]) + req.interval > strptime(req.end)

\* C18: delete_appointment(i) with 0 <= i < length of the store removes the
\* record at position i and no other, returns it, and keeps the other
\* records in their order; with any other i it reports NotFound and leaves
\* the store as it was; clear_all_appointments leaves the store empty.
C18_DeleteByPosition ==
    [][/\ op' = "delete_appointment" =>
           LET i == req'.index IN
           IF 0 <= i /\ i < Len(appointments)
           THEN /\ IsSuccess(resp')
                /\ resp'.deleted = appointments[i + 1]
                /\ Len(appointments') = Len(appointments) - 1
                /\ \A k \in 1..Len(appointments') :
                       appointments'[k] = appointments[IF k <= i THEN k ELSE k + 1]
           ELSE /\ resp' = [status_code |-> 404]
                /\ appointments' = appointments
       /\ op' = "clear_all_appointments" => appointments' = <<>>]_vars

\* the first of two records was deleted and the second is still stored
C18_Witness ==
    /\ op = "delete_appointment" /\ IsSuccess(resp)
    /\ req.index = 0
    /\ Len(appointments) = 1 /\ appointments[1] # resp.deleted

\* C19: every stored appointment starts at one of the slot labels that
\* generate_time_slots produces for the DaySchedule of its weekday, so a
\* request for a time off the grid, such as 09:15 on a 09:00-17:00 day, is
\* never committed.
C19_BookingsOnTheGrid ==
    \A i \in 1..Len(appointments) :
        LET a == appointments[i]
            day == WeekdayOf(a.start_time.date)
        IN  /\ day \in DOMAIN schedules
            /\ InSeq(HM(a.start_time.hour, a.start_time.minute),
                     generate_time_slots(schedules[day].start_time,
                                         schedules[day].end_time, SlotMinutes))

====
